---- MODULE Spec2Model ----
(***************************************************************************)
(* Streaming ingestion and result reconstruction of the WebCite MCP        *)
(* server: WebCiteApiClient.verifyClaimStream (src/src/api-client.ts), an  *)
(* async generator that turns the bytes of an SSE response into events,    *)
(* collectStreamEvents (src/src/index.ts), which folds the events into one *)
(* verification result, and the verify_claim_stream tool handler.          *)
(*                                                                         *)
(* Text is a sequence of tokens.  A token is a run of characters that the  *)
(* transport delivers whole: "event:" and " " together are the literal     *)
(* 'event: ', "\n" is the newline.  A JavaScript string is the sequence of *)
(* its tokens, '' is << >>.  Bytes on the wire are tokens too; the two     *)
(* bytes "C3" "A9" are the UTF-8 encoding of the one character "U+00E9".   *)
(***************************************************************************)
EXTENDS Naturals, Sequences, FiniteSets, TLC

\* ------------------------------------------------------------- bounds
\* Longest response body, counted in lines.
MaxLines == 4
\* Longest event sequence handed to collectStreamEvents on its own.
MaxEvents == 3
\* Longest response body of whole frames, counted in pieces.
MaxPieces == 3

\* ------------------------------------------------------ string helpers
NL == "\n"
Space == " "
EventPrefix == <<"event:", Space>>
DataPrefix == <<"data:", Space>>
Message == <<"message">>

\* String.prototype.startsWith
StartsWith(s, p) ==
  /\ Len(s) >= Len(p)
  /\ SubSeq(s, 1, Len(p)) = p

\* String.prototype.slice(n) with n >= 0
Slice(s, n) == SubSeq(s, n + 1, Len(s))

RECURSIVE TrimStart(_)
TrimStart(s) ==
  IF s # << >> /\ Head(s) \in {Space, NL} THEN TrimStart(Tail(s)) ELSE s

RECURSIVE TrimEnd(_)
TrimEnd(s) ==
  IF s # << >> /\ s[Len(s)] \in {Space, NL}
    THEN TrimEnd(SubSeq(s, 1, Len(s) - 1))
    ELSE s

\* String.prototype.trim
Trim(s) == TrimEnd(TrimStart(s))

\* String.prototype.split('\n'): n newlines give n + 1 pieces
RECURSIVE SplitFrom(_, _)
SplitFrom(s, cur) ==
  IF s = << >> THEN <<cur>>
  ELSE IF Head(s) = NL THEN <<cur>> \o SplitFrom(Tail(s), << >>)
  ELSE SplitFrom(Tail(s), Append(cur, Head(s)))

Split(s) == SplitFrom(s, << >>)

\* Array.prototype.pop: the array without its last element
Front(q) == SubSeq(q, 1, Len(q) - 1)
Last(q) == q[Len(q)]

\* ------------------------------------------------------- TextDecoder
\* TextDecoder.decode(value, {stream: true}): a lead byte at the end of a
\* chunk is held back until its continuation byte arrives.
LeadByte == "C3"
ContByte == "A9"
Char == "U+00E9"
Replacement == "U+FFFD"

RECURSIVE DecodeFrom(_, _, _)
DecodeFrom(pend, bytes, out) ==
  IF bytes = << >> THEN [text |-> out, pending |-> pend]
  ELSE LET b == Head(bytes) IN
    IF pend # << >>
      THEN IF b = ContByte
             THEN DecodeFrom(<< >>, Tail(bytes), Append(out, Char))
             ELSE DecodeFrom(<< >>, bytes, Append(out, Replacement))
    ELSE IF b = LeadByte THEN DecodeFrom(<<b>>, Tail(bytes), out)
    ELSE IF b = ContByte THEN DecodeFrom(<< >>, Tail(bytes), Append(out, Replacement))
    ELSE DecodeFrom(<< >>, Tail(bytes), Append(out, b))

Decode(pend, bytes) == DecodeFrom(pend, bytes, << >>)

\* ------------------------------------------------------------- JSON
\* A JavaScript value: type is what distinguishes it, raw is the text of a
\* string, id names an object, claim_groups / thread_id / citation_count
\* are the fields of an object the aggregator looks at.
Value(t, raw, id, cg, tid, cc) ==
  [type |-> t, raw |-> raw, id |-> id, claim_groups |-> cg,
   thread_id |-> tid, citation_count |-> cc]

Null == Value("null", << >>, "", "absent", "absent", 0)
Undefined == Value("undefined", << >>, "", "absent", "absent", 0)
SyntaxError == Value("SyntaxError", << >>, "", "absent", "absent", 0)
Str(s) == Value("string", s, "", "absent", "absent", 0)
Num(id) == Value("number", << >>, id, "absent", "absent", 0)
Obj(id, cg, tid, cc) == Value("object", << >>, id, cg, tid, cc)

\* The documents the service sends in the model, by their text.
JSONParse(text) ==
  CASE text = <<"{r1}">> -> Obj("r1", "absent", "t1", 0)
    [] text = <<"{g1}">> -> Obj("g1", "absent", "absent", 1)
    [] text = <<"null">> -> Null
    [] text = <<"7">> -> Num("7")
    [] OTHER -> SyntaxError

\* A catch block that gives up the payload.
ParseOrNull(text) ==
  LET v == JSONParse(text) IN IF v = SyntaxError THEN Null ELSE v

\* try { JSON.parse(currentData) } catch { currentData }
ParseOrRaw(text) ==
  LET v == JSONParse(text) IN IF v = SyntaxError THEN Str(text) ELSE v

\* typeof v === 'object' (null included, as in JavaScript)
TypeofObject(v) == v.type \in {"object", "array", "null"}

\* ToBoolean(v)
Truthy(v) ==
  CASE v.type \in {"null", "undefined"} -> FALSE
    [] v.type = "string" -> v.raw # << >>
    [] v.type = "number" -> v.id # "0"
    [] OTHER -> TRUE

\* ------------------------------------------------------ the response
EventLine(kind) == EventPrefix \o kind
DataLine(payload) == DataPrefix \o payload

\* The lines a response body is made of in the model.
Lines ==
  { EventLine(<<"complete">>),
    DataLine(<<"{r1}">>),
    DataLine(<<LeadByte, ContByte>>),
    << >> }

RECURSIVE Join(_)
Join(ls) == IF ls = << >> THEN << >> ELSE Head(ls) \o <<NL>> \o Join(Tail(ls))

LineSeqs == UNION { [1..n -> Lines] : n \in 1..MaxLines }

\* Every line ends in a newline, except that the service may close the
\* connection right after the last line's text, or in the middle of its
\* last character.
CutBodies ==
  { Front(Front(Join(ls))) :
      ls \in { l \in LineSeqs : Last(l) = DataLine(<<LeadByte, ContByte>>) } }

Bodies ==
  {<< >>} \cup { Join(ls) : ls \in LineSeqs }
          \cup { Front(Join(ls)) : ls \in LineSeqs }
          \cup CutBodies

Response(ok, status, text, hasBody, bytes) ==
  [ok |-> ok, status |-> status, text |-> text, body |-> hasBody, bytes |-> bytes]

Responses ==
  { Response(TRUE, 200, "", TRUE, b) : b \in Bodies }
    \cup { Response(FALSE, s, "rate limited", TRUE, << >>) : s \in {429, 500} }
    \cup { Response(TRUE, 200, "", FALSE, << >>) }

\* ---------------------------------------------------------- the state
VARIABLES
  response,      \* what fetch resolves to
  pos,           \* bytes of response.bytes the reader has handed out
  gpc,           \* where the generator verifyClaimStream is suspended
  reader,        \* "none", "locked" (getReader), "released" (releaseLock)
  releases,      \* calls of reader.releaseLock()
  reads,         \* reader.read() has been called
  lateRead,      \* a read was issued on a released reader
  pending,       \* bytes the TextDecoder holds back
  buffer,        \* let buffer
  lines,         \* the rest of `lines` the for loop has not visited yet
  currentEvent,  \* let currentEvent
  currentData,   \* let currentData
  cur,           \* the event handed over at the yield
  error,         \* the error the call failed with
  yielded,       \* history: every event the stream has handed over
  splitFrame,    \* history: some read ended inside a line or a frame
  visited,       \* history: the lines the for loop has visited, in order
  frameStart,    \* history: how many lines were visited at the last reset
  cpc,           \* where collectStreamEvents is
  events,        \* const events
  finalResult,   \* let finalResult
  tool,          \* what the verify_claim_stream handler returned
  calls,         \* two calls in flight at once: the state of each
  alone          \* the same two calls, each run with nothing beside it

genVars == <<response, pos, gpc, reader, releases, reads, lateRead, pending,
             buffer, lines, currentEvent, currentData, cur, error,
             yielded, splitFrame, visited, frameStart>>
aggVars == <<cpc, events, finalResult, tool>>
twoVars == <<calls, alone>>
vars == <<response, pos, gpc, reader, releases, reads, lateRead, pending,
          buffer, lines, currentEvent, currentData, cur, error,
          yielded, splitFrame, visited, frameStart,
          cpc, events, finalResult, tool, calls, alone>>

Event(kind, data) == [event |-> kind, data |-> data]
NoEvent == Event(<< >>, Undefined)

Error(name, status, text) == [name |-> name, status |-> status, text |-> text]
NoError == Error("", 0, "")

ToolResponse(kind, isError, result, evs, err) ==
  [kind |-> kind, isError |-> isError, result |-> result, events |-> evs, error |-> err]
ToolPending == ToolResponse("pending", FALSE, Null, << >>, NoError)

InitCall ==
  /\ pos = 0
  /\ gpc = "fetch"
  /\ reader = "none"
  /\ releases = 0
  /\ reads = FALSE
  /\ lateRead = FALSE
  /\ pending = << >>
  /\ buffer = << >>
  /\ lines = << >>
  /\ currentEvent = Message
  /\ currentData = << >>
  /\ cur = NoEvent
  /\ error = NoError
  /\ yielded = << >>
  /\ splitFrame = FALSE
  /\ visited = << >>
  /\ frameStart = 0
  /\ cpc = "loop"
  /\ events = << >>
  /\ finalResult = Null
  /\ tool = ToolPending

\* No second call is in flight.
NoCalls ==
  /\ calls = << >>
  /\ alone = << >>

Init ==
  /\ response \in Responses
  /\ InitCall
  /\ NoCalls

\* ------------------------------------------------- verifyClaimStream
\* The for loop over `lines`, run until it suspends at the yield or has
\* visited every line.
RECURSIVE RunLoop(_, _, _)
RunLoop(ls, ev, data) ==
  IF ls = << >> THEN [yield |-> FALSE, lines |-> << >>, event |-> ev, data |-> data]
  ELSE LET line == Head(ls) IN
    IF StartsWith(line, EventPrefix)
      THEN RunLoop(Tail(ls), Trim(Slice(line, Len(EventPrefix))), data)
    ELSE IF StartsWith(line, DataPrefix)
      THEN RunLoop(Tail(ls), ev, Slice(line, Len(DataPrefix)))
    ELSE IF line = << >> /\ data # << >>
      THEN [yield |-> TRUE, lines |-> Tail(ls), event |-> ev, data |-> data]
    ELSE RunLoop(Tail(ls), ev, data)

\* The loop after the read loop: the last event: and data: line of what is
\* left in the buffer.
RECURSIVE FlushLoop(_, _, _)
FlushLoop(ls, ev, data) ==
  IF ls = << >> THEN [event |-> ev, data |-> data]
  ELSE LET line == Head(ls) IN
    IF StartsWith(line, EventPrefix)
      THEN FlushLoop(Tail(ls), Trim(Slice(line, Len(EventPrefix))), data)
    ELSE IF StartsWith(line, DataPrefix)
      THEN FlushLoop(Tail(ls), ev, Slice(line, Len(DataPrefix)))
    ELSE FlushLoop(Tail(ls), ev, data)

\* if (buffer.trim()) { ... if (currentData) yield ... }
Flush(buf) ==
  IF Trim(buf) = << >> THEN [yield |-> FALSE, event |-> Message, data |-> << >>]
  ELSE LET r == FlushLoop(Split(buf), Message, << >>) IN
    [yield |-> r.data # << >>, event |-> r.event, data |-> r.data]

\* releaseLock() placed after the try block, with no finally.
ReleaseAfterLoopOnly(exit) ==
  IF exit = "normal"
    THEN /\ reader' = "released"
         /\ releases' = releases + 1
    ELSE UNCHANGED <<reader, releases>>

\* finally { reader.releaseLock() }: runs however the try block is left,
\* by falling off its end ("normal"), by an error ("throw") or by the
\* consumer's return() at a yield ("return").
Finally(exit) ==
  /\ reader' = "released"
  /\ releases' = releases + 1

\* The status is never looked at.
ResponseNeverFailed(r) == FALSE

\* if (!response.ok)
ResponseFailed(r) == ~r.ok

\* The body is taken to be there.
BodyNeverMissing(r) == FALSE

\* if (!response.body)
BodyMissing(r) == ~r.body

\* fetch resolves; the status and the body are checked; the reader is taken.
Fetch ==
  /\ gpc = "fetch"
  /\ IF ResponseFailed(response)
       THEN /\ gpc' = "threw"
            /\ error' = Error("WebCite API error", response.status, response.text)
            /\ UNCHANGED reader
     ELSE IF BodyMissing(response)
       THEN /\ gpc' = "threw"
            /\ error' = Error("No response body received from streaming endpoint", 0, "")
            /\ UNCHANGED reader
     ELSE /\ gpc' = "read"
          /\ reader' = "locked"
          /\ UNCHANGED error
  /\ UNCHANGED <<response, pos, releases, reads, lateRead, pending, buffer,
                 lines, currentEvent, currentData, cur, yielded,
                 splitFrame, visited, frameStart>>
  /\ UNCHANGED aggVars
  /\ UNCHANGED twoVars

\* The event is handed over and the generator goes on to its next read.
NoSuspend == "read"

\* yield: the generator is suspended until the consumer calls next()
Suspend == "yield"

\* The generator goes on in the for loop from (ls, ev, data).
\* buf and pend are what the pass leaves in the buffer and the decoder.
Continue(ls, ev, data, buf, pend) ==
  LET r == RunLoop(ls, ev, data) IN
    /\ lines' = r.lines
    /\ visited' = visited \o SubSeq(ls, 1, Len(ls) - Len(r.lines))
    /\ currentEvent' = r.event
    /\ currentData' = r.data
    /\ IF r.yield
         THEN /\ gpc' = Suspend
              /\ cur' = Event(r.event, ParseOrRaw(r.data))
              /\ yielded' = Append(yielded, cur')
              /\ UNCHANGED splitFrame
         ELSE /\ gpc' = "read"
              /\ cur' = NoEvent
              /\ splitFrame' = (\/ splitFrame
                                \/ r.event # Message
                                \/ r.data # << >>
                                \/ buf # << >>
                                \/ pend # << >>)
              /\ UNCHANGED yielded

\* The text after the last newline is thrown away.
PopNothing(ls) == << >>

\* buffer = lines.pop() ?? ''
Pop(ls) == Last(ls)

\* reader.read() resolves with the next k bytes of the body.
ReadChunk(k) ==
  /\ gpc = "read"
  /\ pos + k <= Len(response.bytes)
  /\ LET d == Decode(pending, SubSeq(response.bytes, pos + 1, pos + k))
         ls == Split(buffer \o d.text)
     IN /\ pending' = d.pending
        /\ buffer' = Pop(ls)
        /\ Continue(Front(ls), Message, << >>, Pop(ls), d.pending)
  /\ UNCHANGED frameStart
  /\ pos' = pos + k
  /\ reads' = TRUE
  /\ lateRead' = (lateRead \/ reader # "locked")
  /\ UNCHANGED <<response, reader, releases, error>>
  /\ UNCHANGED aggVars
  /\ UNCHANGED twoVars

\* reader.read() resolves with done: the rest of the buffer is flushed.
ReadDone ==
  /\ gpc = "read"
  /\ pos = Len(response.bytes)
  /\ LET f == Flush(buffer) IN
       /\ currentEvent' = f.event
       /\ currentData' = f.data
       /\ IF f.yield
            THEN /\ gpc' = "yieldFlush"
                 /\ cur' = Event(f.event, ParseOrRaw(f.data))
                 /\ yielded' = Append(yielded, cur')
                 /\ UNCHANGED <<reader, releases>>
            ELSE /\ gpc' = "done"
                 /\ cur' = NoEvent
                 /\ Finally("normal")
                 /\ UNCHANGED yielded
  /\ reads' = TRUE
  /\ lateRead' = (lateRead \/ reader # "locked")
  /\ UNCHANGED <<response, pos, pending, buffer, lines, error,
                 splitFrame, visited, frameStart>>
  /\ UNCHANGED aggVars
  /\ UNCHANGED twoVars

\* reader.read() rejects: the error leaves the generator through finally.
ReadRaise ==
  /\ gpc = "read"
  /\ gpc' = "threw"
  /\ error' = Error("read failed", 0, "")
  /\ Finally("throw")
  /\ reads' = TRUE
  /\ lateRead' = (lateRead \/ reader # "locked")
  /\ UNCHANGED <<response, pos, pending, buffer, lines, currentEvent,
                 currentData, cur, yielded, splitFrame, visited, frameStart>>
  /\ UNCHANGED aggVars
  /\ UNCHANGED twoVars

\* The fields are left as the emitted frame set them.
ResetNothing == [event |-> currentEvent, data |-> currentData]

\* currentEvent = 'message'; currentData = ''
Reset == [event |-> Message, data |-> << >>]

\* The consumer asks for the next event: the generator goes on after the
\* yield it was suspended at.
Resume ==
  /\ \/ /\ gpc = "resume"
        /\ Continue(lines, Reset.event, Reset.data, buffer, pending)
        /\ frameStart' = Len(visited)
        /\ UNCHANGED <<reader, releases>>
     \/ /\ gpc = "resumeFlush"
        /\ gpc' = "done"
        /\ cur' = NoEvent
        /\ Finally("normal")
        /\ UNCHANGED <<lines, currentEvent, currentData, yielded,
                 splitFrame, visited, frameStart>>
  /\ UNCHANGED <<response, pos, reads, lateRead, pending, buffer, error>>
  /\ UNCHANGED aggVars
  /\ UNCHANGED twoVars

\* ----------------------------------------------- collectStreamEvents
TerminalKinds == {<<"complete">>, <<"result">>, <<"done">>}

\* The kind decides; typeof is not asked.
QualifiesByKind(e) ==
  /\ e.event \in TerminalKinds
  /\ Truthy(e.data)

\* event.event === 'complete' || ... 'result' || ... 'done', and
\* event.data && typeof event.data === 'object'
Qualifies(e) ==
  /\ e.event \in TerminalKinds
  /\ Truthy(e.data)
  /\ TypeofObject(e.data)

\* The first qualifying event is kept.
UpdateFinalOnce(fr, e) == IF Qualifies(e) /\ ~Truthy(fr) THEN e.data ELSE fr

\* The body of the for await loop, as far as finalResult goes.
UpdateFinal(fr, e) == IF Qualifies(e) THEN e.data ELSE fr

\* if (data.claim_groups)
HasClaimGroups(data) == data.claim_groups = "array"

\* if (data.thread_id): a field that is missing or the empty string is falsy
HasThreadId(data) == data.thread_id \notin {"absent", ""}

Acc(groups, credit, thread, final) ==
  [claimGroups |-> groups, creditUsage |-> credit, threadId |-> thread, final |-> final]

\* The first snapshot is kept.
ScanStepFirstSnapshot(acc, e) ==
  LET data == e.data IN
    IF ~Truthy(data) \/ ~TypeofObject(data) THEN acc
    ELSE Acc(IF e.event = <<"claim_group">> THEN Append(acc.claimGroups, data)
                                            ELSE acc.claimGroups,
             IF e.event = <<"credit_usage">> THEN data ELSE acc.creditUsage,
             IF HasThreadId(data) THEN data.thread_id ELSE acc.threadId,
             IF HasClaimGroups(data) /\ ~Truthy(acc.final) THEN data ELSE acc.final)

\* The first thread_id is kept.
ScanStepFirstThread(acc, e) ==
  LET data == e.data IN
    IF ~Truthy(data) \/ ~TypeofObject(data) THEN acc
    ELSE Acc(IF e.event = <<"claim_group">> THEN Append(acc.claimGroups, data)
                                            ELSE acc.claimGroups,
             IF e.event = <<"credit_usage">> THEN data ELSE acc.creditUsage,
             IF HasThreadId(data) /\ acc.threadId = "" THEN data.thread_id
                                                       ELSE acc.threadId,
             IF HasClaimGroups(data) THEN data ELSE acc.final)

\* A claim group that is in the list already is not added again.
ScanStepDedup(acc, e) ==
  LET data == e.data IN
    IF ~Truthy(data) \/ ~TypeofObject(data) THEN acc
    ELSE Acc(IF /\ e.event = <<"claim_group">>
                /\ \A i \in DOMAIN acc.claimGroups : acc.claimGroups[i].id # data.id
               THEN Append(acc.claimGroups, data)
               ELSE acc.claimGroups,
             IF e.event = <<"credit_usage">> THEN data ELSE acc.creditUsage,
             IF HasThreadId(data) THEN data.thread_id ELSE acc.threadId,
             IF HasClaimGroups(data) THEN data ELSE acc.final)

\* One pass of the loop that assembles a result from the events.
ScanStep(acc, e) ==
  LET data == e.data IN
    IF ~Truthy(data) \/ ~TypeofObject(data) THEN acc
    ELSE Acc(IF e.event = <<"claim_group">> THEN Append(acc.claimGroups, data)
                                            ELSE acc.claimGroups,
             IF e.event = <<"credit_usage">> THEN data ELSE acc.creditUsage,
             IF HasThreadId(data) THEN data.thread_id ELSE acc.threadId,
             IF HasClaimGroups(data) THEN data ELSE acc.final)

RECURSIVE Scan(_, _)
Scan(acc, evs) ==
  IF evs = << >> THEN acc ELSE Scan(ScanStep(acc, Head(evs)), Tail(evs))

\* The groups are counted, not their citations.
CountGroups(groups) == Len(groups)

\* claimGroups.reduce((sum, g) => sum + g.citation_count, 0)
RECURSIVE SumCitationCount(_)
SumCitationCount(groups) ==
  IF groups = << >> THEN 0
  ELSE Head(groups).citation_count + SumCitationCount(Tail(groups))

Synthesized(acc) ==
  [type |-> "synthesized",
   groups |-> acc.claimGroups,
   totalResults |-> SumCitationCount(acc.claimGroups),
   thread_id |-> acc.threadId,
   credit_usage |-> acc.creditUsage]

\* The events are scanned even when a terminal event gave the result.
AlwaysAssemble(fr) == TRUE

\* if (!finalResult)
NeedsAssembly(fr) == ~Truthy(fr)

\* What collectStreamEvents returns as result once the stream has ended.
Assemble(fr, evs) ==
  IF ~NeedsAssembly(fr) THEN fr
  ELSE LET acc == Scan(Acc(<< >>, Undefined, "", fr), evs) IN
    IF ~Truthy(acc.final) /\ Len(acc.claimGroups) > 0
      THEN Synthesized(acc)
      ELSE acc.final

\* for await (const event of stream) { ... }: one event is taken.
Consume ==
  /\ cpc = "loop"
  /\ gpc \in {"yield", "yieldFlush"}
  /\ events' = Append(events, cur)
  /\ finalResult' = UpdateFinal(finalResult, cur)
  /\ gpc' = IF gpc = "yield" THEN "resume" ELSE "resumeFlush"
  /\ UNCHANGED <<response, pos, reader, releases, reads, lateRead, pending,
                 buffer, lines, currentEvent, currentData, cur, error,
                 yielded, splitFrame, visited, frameStart>>
  /\ UNCHANGED <<cpc, tool>>
  /\ UNCHANGED twoVars

\* The stream has ended: the result is assembled and returned.
\* A loop that is left only once a terminal event has been stored.
LoopEndsOnTerminal == gpc = "done" /\ Truthy(finalResult)

\* for await is over when the generator is done, whatever it yielded
LoopEnds == gpc = "done"

CollectReturn ==
  /\ cpc = "loop"
  /\ LoopEnds
  /\ finalResult' = Assemble(finalResult, events)
  /\ cpc' = "returned"
  /\ UNCHANGED genVars
  /\ UNCHANGED <<events, tool>>
  /\ UNCHANGED twoVars

\* The stream has failed: for await rethrows, nothing is returned.
CollectThrow ==
  /\ cpc = "loop"
  /\ gpc = "threw"
  /\ cpc' = "threw"
  /\ UNCHANGED genVars
  /\ UNCHANGED <<events, finalResult, tool>>
  /\ UNCHANGED twoVars

\* return() is taken for next(): the generator goes on after the yield.
ReturnGoesOn == "resume"

\* return() at a yield: the generator is finished once finally has run
Return == "returned"

\* A consumer leaves its loop at an event: the iterator's return() takes the
\* generator out of the yield through its finally block.
ConsumerBreak ==
  /\ cpc = "loop"
  /\ gpc \in {"yield", "yieldFlush"}
  /\ gpc' = Return
  /\ cpc' = "stopped"
  /\ Finally("return")
  /\ UNCHANGED <<response, pos, reads, lateRead, pending, buffer, lines,
                 currentEvent, currentData, cur, error, yielded,
                 splitFrame, visited, frameStart>>
  /\ UNCHANGED <<events, finalResult, tool>>
  /\ UNCHANGED twoVars

\* A consumer's processing of an event raises: the loop is left the same
\* way and the error goes on to the caller.
ConsumerThrow ==
  /\ cpc = "loop"
  /\ gpc \in {"yield", "yieldFlush"}
  /\ gpc' = Return
  /\ cpc' = "threw"
  /\ error' = Error("consumer failed", 0, "")
  /\ Finally("return")
  /\ UNCHANGED <<response, pos, reads, lateRead, pending, buffer, lines,
                 currentEvent, currentData, cur, yielded,
                 splitFrame, visited, frameStart>>
  /\ UNCHANGED <<events, finalResult, tool>>
  /\ UNCHANGED twoVars

\* ------------------------------------ the verify_claim_stream handler
\* No result is reported as an error.
RespondOrFail(result, evs) ==
  IF Truthy(result)
    THEN ToolResponse("result", FALSE, result, << >>, NoError)
    ELSE ToolResponse("error", TRUE, Null, << >>, Error("no result", 0, ""))

\* if (result) { ... formatVerifyResult ... } else the raw events
Respond(result, evs) ==
  IF Truthy(result)
    THEN ToolResponse("result", FALSE, result, << >>, NoError)
    ELSE ToolResponse("fallback", FALSE, Null, evs, NoError)

\* A catch block that answers with what had been collected so far.
FailWithPartial(err) == Respond(finalResult, events)

\* catch (error): the response is the error's message, isError is set
Fail(err) == ToolResponse("error", TRUE, Null, << >>, err)

Handler ==
  /\ tool = ToolPending
  /\ \/ /\ cpc = "returned"
        /\ tool' = Respond(finalResult, events)
     \/ /\ cpc = "threw"
        /\ tool' = Fail(error)
  /\ UNCHANGED genVars
  /\ UNCHANGED <<cpc, events, finalResult>>
  /\ UNCHANGED twoVars

\* ------------------------------- collectStreamEvents on any stream
\* collectStreamEvents takes any AsyncGenerator<SSEEvent>: here the stream
\* is a source that hands over events of its own choice and then ends or
\* fails.
EventPool ==
  { Event(<<"complete">>, Obj("r1", "absent", "t1", 0)),
    Event(<<"result">>, Obj("r2", "array", "absent", 0)),
    Event(<<"done">>, Obj("r3", "absent", "absent", 0)),
    Event(<<"complete">>, Str(<<"{invalid json">>)),
    Event(<<"done">>, Null),
    Event(<<"claim_group">>, Obj("g1", "absent", "absent", 1)),
    Event(<<"claim_group">>, Obj("g2", "absent", "t2", 2)),
    Event(<<"claim_group">>, Str(<<"{invalid json">>)),
    Event(<<"credit_usage">>, Obj("cu", "absent", "absent", 0)),
    Event(<<"message">>, Obj("t", "absent", "t1", 0)),
    Event(<<"message">>, Obj("s1", "array", "absent", 0)),
    Event(<<"progress">>, Obj("s2", "array", "t2", 0)),
    Event(<<"message">>, Obj("n", "null", "absent", 0)),
    Event(<<"message">>, Obj("e", "absent", "", 0)),
    Event(<<"credit_usage">>, Obj("cu2", "absent", "absent", 0)),
    Event(<<"credit_usage">>, Str(<<"{invalid json">>)),
    Event(<<"result">>, Num("7")) }

SourceYield ==
  /\ gpc = "source"
  /\ Len(events) < MaxEvents
  /\ \E e \in EventPool : cur' = e
  /\ yielded' = Append(yielded, cur')
  /\ gpc' = "yield"
  /\ UNCHANGED <<response, pos, reader, releases, reads, lateRead, pending,
                 buffer, lines, currentEvent, currentData, error,
                 splitFrame, visited, frameStart>>
  /\ UNCHANGED aggVars
  /\ UNCHANGED twoVars

SourceResume ==
  /\ gpc = "resume"
  /\ gpc' = "source"
  /\ cur' = NoEvent
  /\ UNCHANGED <<response, pos, reader, releases, reads, lateRead, pending,
                 buffer, lines, currentEvent, currentData, error, yielded,
                 splitFrame, visited, frameStart>>
  /\ UNCHANGED aggVars
  /\ UNCHANGED twoVars

SourceDone ==
  /\ gpc = "source"
  /\ gpc' = "done"
  /\ UNCHANGED <<response, pos, reader, releases, reads, lateRead, pending,
                 buffer, lines, currentEvent, currentData, cur, error,
                 yielded, splitFrame, visited, frameStart>>
  /\ UNCHANGED aggVars
  /\ UNCHANGED twoVars

SourceRaise ==
  /\ gpc = "source"
  /\ gpc' = "threw"
  /\ error' = Error("stream failed", 0, "")
  /\ UNCHANGED <<response, pos, reader, releases, reads, lateRead, pending,
                 buffer, lines, currentEvent, currentData, cur, yielded,
                 splitFrame, visited, frameStart>>
  /\ UNCHANGED aggVars
  /\ UNCHANGED twoVars

InitCollect ==
  /\ response = Response(TRUE, 200, "", TRUE, << >>)
  /\ pos = 0
  /\ gpc = "source"
  /\ reader = "none"
  /\ releases = 0
  /\ reads = FALSE
  /\ lateRead = FALSE
  /\ pending = << >>
  /\ buffer = << >>
  /\ lines = << >>
  /\ currentEvent = Message
  /\ currentData = << >>
  /\ cur = NoEvent
  /\ error = NoError
  /\ yielded = << >>
  /\ splitFrame = FALSE
  /\ visited = << >>
  /\ frameStart = 0
  /\ cpc = "loop"
  /\ events = << >>
  /\ finalResult = Null
  /\ tool = ToolPending
  /\ NoCalls

NextCollect ==
  \/ SourceYield
  \/ SourceResume
  \/ SourceDone
  \/ SourceRaise
  \/ Consume
  \/ CollectReturn
  \/ CollectThrow
  \/ Handler

SpecCollect == InitCollect /\ [][NextCollect]_vars

\* ---------------------------------------------------- specifications
Next ==
  \/ Fetch
  \/ \E k \in 1..Len(response.bytes) : ReadChunk(k)
  \/ ReadDone
  \/ ReadRaise
  \/ Resume
  \/ Consume
  \/ CollectReturn
  \/ CollectThrow
  \/ ConsumerBreak
  \/ ConsumerThrow
  \/ Handler

Spec == Init /\ [][Next]_vars

\* Every read resolves and every continuation that is ready runs: the
\* event loop never leaves a settled promise or a resumed generator
\* waiting, and the body is finite.
\* The bodies of the runs followed to their end: no bytes at all, a frame
\* with a terminal event, frames without one whose last line has no
\* newline, and a body that ends inside a character.
LiveBodies ==
  { << >>,
    Join(<<EventLine(<<"complete">>), DataLine(<<"{r1}">>), << >>>>),
    Front(Join(<<DataLine(<<"{r1}">>), << >>, DataLine(<<LeadByte, ContByte>>)>>)),
    Front(Front(Join(<<DataLine(<<LeadByte, ContByte>>)>>))) }

InitLive ==
  /\ response \in { r \in Responses : r.bytes \in LiveBodies }
  /\ InitCall
  /\ NoCalls

SpecLive == InitLive /\ [][Next]_vars /\ WF_vars(Next)

\* ------------------------------------ verifyClaimStream on whole frames
\* Bodies put together from event: lines whose value is padded with
\* whitespace or is nothing but whitespace, frames of a data: line and its
\* blank line, and keep-alive blank lines; every line ends in a newline and
\* the stream is read to its end.
PaddedEvent == EventLine(<<Space, "complete", Space>>)
BlankEvent == EventLine(<<Space>>)

Pieces ==
  { <<PaddedEvent>>,
    <<BlankEvent>>,
    <<DataLine(<<"{r1}">>), << >>>>,
    <<DataLine(<<"{g1}">>), << >>>>,
    << << >> >> }

RECURSIVE Flatten(_)
Flatten(ps) == IF ps = << >> THEN << >> ELSE Head(ps) \o Flatten(Tail(ps))

PieceSeqs == UNION { [1..n -> Pieces] : n \in 1..MaxPieces }

FrameBodies == { Join(Flatten(ps)) : ps \in PieceSeqs }

InitFrames ==
  /\ response \in { Response(TRUE, 200, "", TRUE, b) : b \in FrameBodies }
  /\ InitCall
  /\ NoCalls

NextFrames ==
  \/ Fetch
  \/ \E k \in 1..Len(response.bytes) : ReadChunk(k)
  \/ ReadDone
  \/ Resume
  \/ Consume
  \/ CollectReturn
  \/ Handler

SpecFrames == InitFrames /\ [][NextFrames]_vars

\* Bodies with frames out of the common shape: a frame whose data: line
\* comes before its event: line, and a data: line with nothing after the
\* prefix followed by its blank line.
OddPieces ==
  { <<PaddedEvent>>,
    <<DataLine(<<"{r1}">>), << >>>>,
    <<DataLine(<<"{r1}">>), PaddedEvent, << >>>>,
    <<DataLine(<< >>), << >>>> }

OddPieceSeqs == UNION { [1..n -> OddPieces] : n \in 1..MaxPieces }

OddBodies == { Join(Flatten(ps)) : ps \in OddPieceSeqs }

InitOddFrames ==
  /\ response \in { Response(TRUE, 200, "", TRUE, b) : b \in OddBodies }
  /\ InitCall
  /\ NoCalls

SpecOddFrames == InitOddFrames /\ [][NextFrames]_vars

\* ------------------------------------------- two calls in flight at once
\* Two verify_claim_stream requests are served by one process and one
\* WebCiteApiClient; their reads and yields interleave at every await.
\* Each call's reader, decoder, buffer, frame fields, events and result
\* are one record; a step of call i is the step of the single call above,
\* applied to what call i works on.
Calls == {1, 2}

\* The decoder and the buffer are kept in one place for all calls, as
\* fields of the client would be.
SharedSlot(i) == 1

\* const decoder = new TextDecoder(); let buffer = '': locals, allocated
\* anew by every invocation. Slot(i) is where call i keeps them.
Slot(i) == i

Call(bytes) ==
  [bytes |-> bytes, pos |-> 0, pc |-> "read", pending |-> << >>,
   buffer |-> << >>, lines |-> << >>, cur |-> NoEvent, events |-> << >>,
   finalResult |-> Null, returned |-> FALSE]

\* What the for loop makes of the call from (ls, ev, data).
CallContinue(c, ls, ev, data) ==
  LET r == RunLoop(ls, ev, data) IN
    [c EXCEPT !.lines = r.lines,
              !.pc = IF r.yield THEN Suspend ELSE "read",
              !.cur = IF r.yield THEN Event(r.event, ParseOrRaw(r.data))
                                 ELSE NoEvent]

\* reader.read() resolves with the next k bytes.
CallRead(c, k) ==
  LET d == Decode(c.pending, SubSeq(c.bytes, c.pos + 1, c.pos + k))
      ls == Split(c.buffer \o d.text)
  IN CallContinue([c EXCEPT !.pos = c.pos + k,
                            !.pending = d.pending,
                            !.buffer = Pop(ls)],
                  Front(ls), Message, << >>)

\* reader.read() resolves with done.
CallDone(c) ==
  LET f == Flush(c.buffer) IN
    [c EXCEPT !.pc = IF f.yield THEN "yieldFlush" ELSE "done",
              !.cur = IF f.yield THEN Event(f.event, ParseOrRaw(f.data))
                                 ELSE NoEvent]

\* The for await loop takes the event.
CallTake(c) ==
  [c EXCEPT !.events = Append(c.events, c.cur),
            !.finalResult = UpdateFinal(c.finalResult, c.cur),
            !.pc = IF c.pc = "yield" THEN "resume" ELSE "resumeFlush"]

\* The generator goes on after the yield.
CallResume(c) ==
  IF c.pc = "resume"
    THEN CallContinue(c, c.lines, Reset.event, Reset.data)
    ELSE [c EXCEPT !.pc = "done", !.cur = NoEvent]

\* collectStreamEvents returns.
CallReturn(c) ==
  [c EXCEPT !.finalResult = Assemble(c.finalResult, c.events),
            !.returned = TRUE]

\* What call i works on: its own state, with the decoder and the buffer
\* taken from where it keeps them.
View(i) ==
  [calls[i] EXCEPT !.pending = calls[Slot(i)].pending,
                   !.buffer = calls[Slot(i)].buffer]

\* Call i takes a step: new is its record after the step taken from what
\* it sees, run is the record of the same call on its own after that step.
TwoStep(i, new, run) ==
  /\ calls' = [calls EXCEPT ![i] = new,
                            ![Slot(i)] = [@ EXCEPT !.pending = new.pending,
                                                   !.buffer = new.buffer]]
  /\ alone' = [alone EXCEPT ![i] = run]
  /\ UNCHANGED <<genVars, aggVars>>

TwoRead(i, k) ==
  /\ calls[i].pc = "read"
  /\ calls[i].pos + k <= Len(calls[i].bytes)
  /\ TwoStep(i, CallRead(View(i), k), CallRead(alone[i], k))

TwoDone(i) ==
  /\ calls[i].pc = "read"
  /\ calls[i].pos = Len(calls[i].bytes)
  /\ TwoStep(i, CallDone(View(i)), CallDone(alone[i]))

TwoTake(i) ==
  /\ calls[i].pc \in {"yield", "yieldFlush"}
  /\ TwoStep(i, CallTake(View(i)), CallTake(alone[i]))

TwoResume(i) ==
  /\ calls[i].pc \in {"resume", "resumeFlush"}
  /\ TwoStep(i, CallResume(View(i)), CallResume(alone[i]))

TwoReturn(i) ==
  /\ calls[i].pc = "done"
  /\ ~calls[i].returned
  /\ TwoStep(i, CallReturn(View(i)), CallReturn(alone[i]))

\* The bodies the two calls receive.
TwoBodies ==
  { Join(<<DataLine(<<"{r1}">>), << >>>>),
    Join(<<EventLine(<<"complete">>), DataLine(<<"{g1}">>), << >>>>),
    DataLine(<<LeadByte, ContByte>>) }

LongestBody == Join(<<EventLine(<<"complete">>), DataLine(<<"{g1}">>), << >>>>)

InitTwo ==
  /\ response = Response(TRUE, 200, "", TRUE, << >>)
  /\ InitCall
  /\ alone \in [Calls -> { Call(b) : b \in TwoBodies }]
  /\ calls = alone

NextTwo ==
  \/ \E i \in Calls : \E k \in 1..Len(LongestBody) : TwoRead(i, k)
  \/ \E i \in Calls : TwoDone(i)
  \/ \E i \in Calls : TwoTake(i)
  \/ \E i \in Calls : TwoResume(i)
  \/ \E i \in Calls : TwoReturn(i)

SpecTwo == InitTwo /\ [][NextTwo]_vars
\* ------------------------------------------------------------ claims
\* What the generator yields when the whole body arrives in one read.
RECURSIVE LoopEvents(_, _, _)
LoopEvents(ls, ev, data) ==
  LET r == RunLoop(ls, ev, data) IN
    IF r.yield
      THEN <<Event(r.event, ParseOrRaw(r.data))>> \o LoopEvents(r.lines, Message, << >>)
      ELSE << >>

OneReadEvents(bytes) ==
  LET ls == Split(Decode(<< >>, bytes).text)
      f == Flush(Last(ls))
  IN LoopEvents(Front(ls), Message, << >>)
       \o (IF f.yield THEN <<Event(f.event, ParseOrRaw(f.data))>> ELSE << >>)

IsEventLine(l) == StartsWith(l, EventPrefix) /\ Len(l) > Len(EventPrefix)
IsDataLine(l) == StartsWith(l, DataPrefix) /\ Len(l) > Len(DataPrefix)

\* Frames of an optional event: line, a data: line and a blank line.
RECURSIVE FramesOnly(_)
FramesOnly(ls) ==
  \/ ls = << >>
  \/ /\ Len(ls) >= 2
     /\ IsDataLine(ls[1])
     /\ ls[2] = << >>
     /\ FramesOnly(SubSeq(ls, 3, Len(ls)))
  \/ /\ Len(ls) >= 3
     /\ IsEventLine(ls[1])
     /\ IsDataLine(ls[2])
     /\ ls[3] = << >>
     /\ FramesOnly(SubSeq(ls, 4, Len(ls)))

\* The body is a valid SSE sequence: whole frames, each line ended.
ValidSSE(bytes) ==
  LET ls == Split(Decode(<< >>, bytes).text) IN
    /\ bytes # << >>
    /\ Last(ls) = << >>
    /\ FramesOnly(Front(ls))

\* C1: chunk-boundary invariance: when the stream of a valid SSE body has
\* ended, the events yielded are those yielded when the same bytes arrive
\* in a single read, however the reads partitioned them.
C1_ChunkBoundaryInvariance ==
  (gpc = "done" /\ ValidSSE(response.bytes))
    => events = OneReadEvents(response.bytes)

\* The text of the body's last line when it is a data: line with a payload
\* (ended by a newline or not), << >> otherwise.
LastDataPayload(bytes) ==
  LET ls == Split(Decode(<< >>, bytes).text)
      l == IF Last(ls) # << >> THEN Last(ls)
           ELSE IF Len(ls) >= 2 THEN ls[Len(ls) - 1] ELSE << >>
  IN IF IsDataLine(l) THEN Slice(l, Len(DataPrefix)) ELSE << >>

\* C2: no data loss at end of stream: when the body ends right after a
\* data: line, the generator has yielded that line's payload as its last
\* event by the time it finishes.
C2_NoDataLossAtEndOfStream ==
  (gpc = "done" /\ LastDataPayload(response.bytes) # << >>)
    => /\ events # << >>
       /\ Last(events).data = ParseOrRaw(LastDataPayload(response.bytes))

\* The positions of the events a terminal kind and an object payload
\* make authoritative.
QualifyingAt(evs) ==
  { i \in DOMAIN evs :
      /\ evs[i].event \in {<<"complete">>, <<"result">>, <<"done">>}
      /\ evs[i].data.type = "object" }

\* The positions of claim_group events that carry an object.
GroupsAt(evs) ==
  { i \in DOMAIN evs :
      evs[i].event = <<"claim_group">> /\ evs[i].data.type = "object" }

\* The positions of events whose object has a claim_groups field / has one
\* that is not null.
FieldAt(evs) ==
  { i \in DOMAIN evs :
      evs[i].data.type = "object" /\ evs[i].data.claim_groups # "absent" }

SnapshotsAt(evs) ==
  { i \in DOMAIN evs :
      evs[i].data.type = "object" /\ evs[i].data.claim_groups = "array" }

Max(S) == CHOOSE m \in S : \A n \in S : n <= m

\* C3: terminal-event precedence: when a complete, result or done event
\* with an object payload is among the events, what collectStreamEvents
\* returns is the payload of such an event, whatever claim_group,
\* credit_usage, thread_id or snapshot events come before or after it.
C3_TerminalEventPrecedence ==
  (cpc = "returned" /\ QualifyingAt(events) # {})
    => \E i \in QualifyingAt(events) : finalResult = events[i].data

C3_Witness ==
  /\ cpc = "returned"
  /\ \E i, j, k \in DOMAIN events :
       /\ i < j /\ j < k
       /\ i \in GroupsAt(events)
       /\ j \in QualifyingAt(events)
       /\ k \in SnapshotsAt(events)

\* C4: last terminal event wins: with several qualifying events, of
\* whichever of the three kinds, the result is the payload of the last one.
C4_LastTerminalWins ==
  (cpc = "returned" /\ QualifyingAt(events) # {})
    => finalResult = events[Max(QualifyingAt(events))].data

C4_Witness ==
  /\ cpc = "returned"
  /\ \E i, j \in QualifyingAt(events) :
       /\ i < j
       /\ events[i].event # events[j].event
       /\ events[i].data # events[j].data

RECURSIVE TotalUpTo(_, _)
TotalUpTo(groups, n) ==
  IF n = 0 THEN 0 ELSE TotalUpTo(groups, n - 1) + groups[n].citation_count

\* C5: synthesized total: a result synthesized from claim_group events has
\* totalResults equal to the sum of citation_count over its claim groups.
C5_SynthesizedTotal ==
  (cpc = "returned" /\ finalResult.type = "synthesized")
    => finalResult.totalResults
         = TotalUpTo(finalResult.groups, Len(finalResult.groups))

C5_Witness ==
  /\ cpc = "returned"
  /\ finalResult.type = "synthesized"
  /\ Len(finalResult.groups) = 2
  /\ finalResult.totalResults = 3

\* C9: no-result fallback: without a qualifying terminal event, an object
\* with a claim_groups field or a claim_group event with an object, the
\* result is null, the events returned are all that were yielded, in
\* order, and the tool answers with them and no error.
C9_NoResultFallback ==
  (/\ cpc = "returned"
   /\ QualifyingAt(events) = {}
   /\ FieldAt(events) = {}
   /\ GroupsAt(events) = {})
    => /\ finalResult = Null
       /\ events = yielded
       /\ tool # ToolPending
            => (tool.kind = "fallback" /\ ~tool.isError /\ tool.events = yielded)

C9_Witness ==
  /\ cpc = "returned"
  /\ QualifyingAt(events) = {}
  /\ FieldAt(events) = {}
  /\ GroupsAt(events) = {}
  /\ Len(yielded) >= 2
  /\ tool.kind = "fallback"

\* C10 as claimed: without a qualifying terminal event the result is the
\* payload of the last event whose object has a claim_groups field.
C10_SnapshotOverride_Claimed ==
  (cpc = "returned" /\ QualifyingAt(events) = {} /\ FieldAt(events) # {})
    => finalResult = events[Max(FieldAt(events))].data

\* C10: snapshot override: without a qualifying terminal event the result
\* is the payload of the last event whose object has a claim_groups field
\* with a truthy value (an array, even an empty one), wherever it stands
\* among the claim_group events; no result is synthesized then.
C10_SnapshotOverride ==
  (cpc = "returned" /\ QualifyingAt(events) = {} /\ SnapshotsAt(events) # {})
    => finalResult = events[Max(SnapshotsAt(events))].data

C10_Witness ==
  /\ cpc = "returned"
  /\ QualifyingAt(events) = {}
  /\ \E i, j, k \in DOMAIN events :
       /\ i < j /\ j < k
       /\ i \in GroupsAt(events)
       /\ j \in SnapshotsAt(events)
       /\ k \in GroupsAt(events)

\* What a data: line's payload is to be yielded as.
Payload(l) ==
  LET t == Slice(l, Len(DataPrefix)) IN
    IF JSONParse(t) = SyntaxError THEN Str(t) ELSE JSONParse(t)

\* One event per frame of a body of whole frames.
RECURSIVE FrameEvents(_)
FrameEvents(ls) ==
  IF ls = << >> THEN << >>
  ELSE IF IsDataLine(ls[1])
    THEN <<Event(Message, Payload(ls[1]))>> \o FrameEvents(SubSeq(ls, 3, Len(ls)))
    ELSE <<Event(Trim(Slice(ls[1], Len(EventPrefix))), Payload(ls[2]))>>
           \o FrameEvents(SubSeq(ls, 4, Len(ls)))

BodyLines(bytes) == Front(Split(Decode(<< >>, bytes).text))

C7_TransportErrorShortCircuit ==
  ~response.ok =>
    /\ reader = "none"
    /\ ~reads
    /\ yielded = << >>
    /\ events = << >>
    /\ gpc \in {"fetch", "threw"}
    /\ gpc = "threw"
         => error = Error("WebCite API error", response.status, response.text)
    /\ tool # ToolPending
         => /\ tool.isError
            /\ tool.error.status = response.status
            /\ tool.error.text = response.text
            /\ tool.result = Null

C7_Witness ==
  /\ ~response.ok
  /\ tool.isError
  /\ tool.error.status = 429
  /\ tool.error.text = "rate limited"

\* C8: resource guard: once the reader is taken, it is released exactly
\* once by the time the generator has ended, however it ended, and no read
\* is issued on a released reader.
C8_ResourceGuard ==
  /\ releases <= 1
  /\ reader = "none" => releases = 0
  /\ reader = "locked" => (releases = 0 /\ gpc \notin {"done", "threw", "returned"})
  /\ reader = "released" => (releases = 1 /\ gpc \in {"done", "threw", "returned"})
  /\ ~lateRead

C8_Witness ==
  /\ gpc = "returned"
  /\ cpc = "threw"
  /\ reader = "released"
  /\ releases = 1
  /\ reads


\* The positions of events whose object has a thread_id field / has one
\* that is not the empty string.
ThreadFieldAt(evs) ==
  { i \in DOMAIN evs :
      evs[i].data.type = "object" /\ evs[i].data.thread_id # "absent" }

ThreadAt(evs) ==
  { i \in DOMAIN evs :
      evs[i].data.type = "object" /\ evs[i].data.thread_id \notin {"absent", ""} }

\* The positions of credit_usage events / of those that carry an object.
CreditEventsAt(evs) == { i \in DOMAIN evs : evs[i].event = <<"credit_usage">> }

CreditAt(evs) ==
  { i \in CreditEventsAt(evs) : evs[i].data.type = "object" }

\* C11 as the specification states it: in a synthesized result thread_id
\* is that of the last event whose object has a thread_id field, or the
\* empty string, and credit_usage is the data of the last credit_usage
\* event, or absent.
C11_SynthesizedFields_Claimed ==
  (cpc = "returned" /\ finalResult.type = "synthesized")
    => /\ finalResult.thread_id
            = IF ThreadFieldAt(events) = {} THEN ""
              ELSE events[Max(ThreadFieldAt(events))].data.thread_id
       /\ finalResult.credit_usage
            = IF CreditEventsAt(events) = {} THEN Undefined
              ELSE events[Max(CreditEventsAt(events))].data

\* C11: synthesized result fields: in a synthesized result thread_id is
\* that of the last event whose object has a non-empty thread_id, or the
\* empty string when there is none, and credit_usage is the data of the
\* last credit_usage event whose data is an object, or absent when there
\* is none.
C11_SynthesizedFields ==
  (cpc = "returned" /\ finalResult.type = "synthesized")
    => /\ finalResult.thread_id
            = IF ThreadAt(events) = {} THEN ""
              ELSE events[Max(ThreadAt(events))].data.thread_id
       /\ finalResult.credit_usage
            = IF CreditAt(events) = {} THEN Undefined
              ELSE events[Max(CreditAt(events))].data

C11_Witness ==
  /\ cpc = "returned"
  /\ finalResult.type = "synthesized"
  /\ CreditAt(events) # {}
  /\ \E i, j \in ThreadAt(events) :
       /\ i < j
       /\ events[i].data.thread_id # events[j].data.thread_id
       /\ events[i].event # events[j].event
       /\ finalResult.thread_id = events[j].data.thread_id

\* C12: missing body: a response with a success status and no readable
\* body makes the call fail at once with the error 'No response body
\* received from streaming endpoint'; no reader is taken, nothing is read
\* and no event is yielded.
C12_MissingBody ==
  (response.ok /\ ~response.body)
    => /\ gpc \in {"fetch", "threw"}
       /\ reader = "none"
       /\ ~reads
       /\ yielded = << >>
       /\ events = << >>
       /\ gpc = "threw"
            => error = Error("No response body received from streaming endpoint", 0, "")
       /\ cpc \in {"loop", "threw"}
       /\ tool # ToolPending => (tool.isError /\ tool.error = error)

C12_Witness ==
  /\ response.ok
  /\ ~response.body
  /\ gpc = "threw"
  /\ reader = "none"
  /\ tool.kind = "error"

\* C13: in-progress frame fields persist across reads: the pass over the
\* lines of a read starts from the event kind and the payload the previous
\* pass ended with, so a frame whose event: line or data: line came in an
\* earlier read is emitted with them at its blank line.
C13_FrameFieldsPersist ==
  [][(gpc = "read" /\ pos' > pos)
       => LET d == Decode(pending, SubSeq(response.bytes, pos + 1, pos'))
              ls == Split(buffer \o d.text)
              r == RunLoop(Front(ls), currentEvent, currentData)
          IN /\ currentEvent' = r.event
             /\ currentData' = r.data
             /\ (gpc' = "yield") = r.yield
             /\ r.yield => cur' = Event(r.event, ParseOrRaw(r.data))]_vars

\* Every line of the body, the text after the last newline included.
AllLines(bytes) == Split(Decode(<< >>, bytes).text)

\* The body ends in an event: line followed by a data: line that no
\* newline ends.
EndsInOpenFrame(bytes) ==
  LET ls == AllLines(bytes) IN
    /\ Len(ls) >= 2
    /\ IsEventLine(ls[Len(ls) - 1])
    /\ IsDataLine(ls[Len(ls)])

\* C14: the end-of-stream flush finalizes the frame in progress: when the
\* body ends in an event: line and a data: line without a blank line, the
\* event emitted at the end of the stream has the kind of that event: line,
\* although the read loop has consumed the event: line and only the data:
\* line is left in the buffer.
C14_FlushKeepsEventKind ==
  (gpc = "yieldFlush" /\ EndsInOpenFrame(response.bytes))
    => LET ls == AllLines(response.bytes) IN
         cur.event = Trim(Slice(ls[Len(ls) - 1], Len(EventPrefix)))

\* The text the decoder has given out once the first n bytes are read.
TextUpTo(n) == Decode(<< >>, SubSeq(response.bytes, 1, n)).text

\* C15: partial-line carry-over: whatever the reads were, the buffer holds
\* the text received after the last newline, none of it has been handed to
\* the for loop, and the lines the loop has visited or still has before it
\* are the newline-terminated lines received so far, each once, whole and
\* in order.
C15_PartialLineCarryOver ==
  LET ls == Split(TextUpTo(pos)) IN
    /\ buffer = Last(ls)
    /\ visited \o lines = Front(ls)
    /\ gpc = "done" => (pos = Len(response.bytes) /\ lines = << >>)

\* A body of one frame has been yielded although a read ended inside it:
\* that read ended inside a line, since a frame cut at the end of a line
\* is not yielded as it stands, so the line came in two reads.
C15_Witness ==
  /\ gpc = "done"
  /\ splitFrame
  /\ ValidSSE(response.bytes)
  /\ Len(visited) = 3
  /\ events = FrameEvents(visited)

\* The positions of complete, result and done events whose data is not an
\* object: a raw string, null, a number.
BareTerminalAt(evs) ==
  { i \in DOMAIN evs :
      /\ evs[i].event \in {<<"complete">>, <<"result">>, <<"done">>}
      /\ evs[i].data.type # "object" }

\* evs without the events at the positions in S.
RECURSIVE Without(_, _)
Without(evs, S) ==
  IF evs = << >> THEN << >>
  ELSE LET rest == Without(Front(evs), S) IN
    IF Len(evs) \in S THEN rest ELSE Append(rest, Last(evs))

\* C16: a terminal-kind event without an object does not qualify: when the
\* only complete, result or done events carry a raw string, null or a
\* number, the result is none of their payloads; it is what the
\* accumulation over the events gives, the same as over the events without
\* them.
C16_BareTerminalDoesNotQualify ==
  (/\ cpc = "returned"
   /\ QualifyingAt(events) = {}
   /\ BareTerminalAt(events) # {})
    => /\ \A i \in BareTerminalAt(events) : finalResult # events[i].data \/ finalResult = Null
       /\ finalResult = Assemble(Null, events)
       /\ finalResult = Assemble(Null, Without(events, BareTerminalAt(events)))

C16_Witness ==
  /\ cpc = "returned"
  /\ QualifyingAt(events) = {}
  /\ finalResult.type = "synthesized"
  /\ \E i, j \in BareTerminalAt(events) :
       /\ events[i].data.type = "string"
       /\ events[j].data.type \in {"null", "number"}

\* The data of the claim_group events that carry an object, in order.
RECURSIVE GroupData(_)
GroupData(evs) ==
  IF evs = << >> THEN << >>
  ELSE IF Len(evs) \in GroupsAt(evs)
    THEN Append(GroupData(Front(evs)), Last(evs).data)
    ELSE GroupData(Front(evs))

\* C17: claim-group accumulation: the claim groups of a synthesized result
\* are the data of the claim_group events that carry an object, one entry
\* for each event in arrival order, repeated claim ids included;
\* claim_group events with a raw string add nothing.
C17_ClaimGroupAccumulation ==
  (cpc = "returned" /\ finalResult.type = "synthesized")
    => /\ finalResult.groups = GroupData(events)
       /\ Len(finalResult.groups) = Cardinality(GroupsAt(events))

C17_Witness ==
  /\ cpc = "returned"
  /\ finalResult.type = "synthesized"
  /\ Len(finalResult.groups) = 2
  /\ finalResult.groups[1].id = finalResult.groups[2].id
  /\ \E i \in DOMAIN events :
       events[i].event = <<"claim_group">> /\ events[i].data.type = "string"

\* The lines the for loop has visited since the last emitted frame, the
\* blank line it is emitting at left out.
SinceReset == SubSeq(visited, frameStart + 1, Len(visited) - 1)

\* C18: fields are reset after each emitted frame: a frame emitted at a
\* blank line has the payload of a data: line that came after the frame
\* emitted before it, and its kind is message or the value of an event:
\* line that came after that frame; so it is message when only a data:
\* line came since, and a blank line right after an emitted frame emits
\* nothing.
C18_FieldsResetAfterFrame ==
  gpc = "yield"
    => /\ Last(visited) = << >>
       /\ Len(visited) >= frameStart + 2
       /\ \E i \in DOMAIN SinceReset :
            /\ IsDataLine(SinceReset[i])
            /\ cur.data = Payload(SinceReset[i])
       /\ \/ cur.event = Message
          \/ \E i \in DOMAIN SinceReset :
               /\ StartsWith(SinceReset[i], EventPrefix)
               /\ cur.event = Trim(Slice(SinceReset[i], Len(EventPrefix)))

C18_Witness ==
  /\ gpc = "yield"
  /\ Len(yielded) = 2
  /\ yielded[1] = Event(<<"complete">>, Payload(DataLine(<<"{r1}">>)))
  /\ yielded[2] = Event(Message, Payload(DataLine(<<"{g1}">>)))
  /\ frameStart = 3
  /\ SinceReset = <<DataLine(<<"{g1}">>)>>

\* C19: default event kind: every yielded event has a non-empty kind; a
\* frame whose event: line has nothing but whitespace as its value is
\* yielded with the kind message.
C19_DefaultEventKind ==
  \A i \in DOMAIN yielded : yielded[i].event # << >>

\* An event: line, a keep-alive blank line, a data: line and its blank line.
KeepAliveBody ==
  Join(<<PaddedEvent, << >>, DataLine(<<"{r1}">>), << >>>>)

\* C20: keep-alive blank lines are no-ops: a blank line seen while no
\* payload is set emits nothing and leaves the event kind as it is, so the
\* body of an event: line, a blank line, a data: line and a blank line has
\* yielded, when the stream ends, one event with the kind of the event:
\* line.
C20_KeepAliveNoOp ==
  (gpc = "done" /\ response.bytes = KeepAliveBody)
    => events = <<Event(<<"complete">>, Payload(DataLine(<<"{r1}">>)))>>

\* A frame with its data: line before its event: line.
ReversedBody == Join(<<DataLine(<<"{r1}">>), PaddedEvent, << >>>>)

\* C21: order within a frame does not matter: the frame of a data: line,
\* then an event: line, then a blank line has yielded, when the stream
\* ends, one event with that kind and that payload, as the frame in
\* canonical order does.
C21_OrderWithinFrame ==
  (gpc = "done" /\ response.bytes = ReversedBody)
    => events = <<Event(<<"complete">>, Payload(DataLine(<<"{r1}">>)))>>

\* An event: line, a data: line with an empty payload and its blank line,
\* then a data: line with a payload and its blank line.
EmptyPayloadBody ==
  Join(<<PaddedEvent, DataLine(<< >>), << >>, DataLine(<<"{r1}">>), << >>>>)

\* C27: a frame with an empty payload counts as having no payload: the
\* data: line with the empty payload and its blank line emit nothing, and
\* the event kind set before them is still in effect at the next data:
\* line, so the body has yielded, when the stream ends, one event with
\* that kind and the later payload.
C27_EmptyPayloadIsNoPayload ==
  (gpc = "done" /\ response.bytes = EmptyPayloadBody)
    => events = <<Event(<<"complete">>, Payload(DataLine(<<"{r1}">>)))>>

\* C22: backpressure ordering: whenever the generator is at reader.read(),
\* every line of the last chunk has been visited, no event is waiting at a
\* yield and the consumer has taken every event yielded so far; while an
\* event waits at a yield it is the only one the consumer has not taken.
C22_BackpressureOrdering ==
  /\ gpc = "read"
       => /\ lines = << >>
          /\ cur = NoEvent
          /\ events = yielded
          /\ cpc = "loop"
  /\ gpc \in {"yield", "yieldFlush"}
       => /\ cur = Last(yielded)
          /\ events = Front(yielded)

C22_Witness ==
  /\ gpc = "read"
  /\ reads
  /\ pos = Len(response.bytes)
  /\ Len(events) = 2
  /\ events = yielded

\* C23: early cancellation: when the consumer stops iterating at an event,
\* the generator is finished and its reader released, once; from then on
\* nothing is read, nothing more is yielded or collected, and what was left
\* in the buffer or of a frame is not emitted.
C23_EarlyCancellation ==
  [][/\ cpc' = "stopped"
          => /\ gpc' = "returned"
             /\ reader' = "released"
             /\ releases' = 1
             /\ ~lateRead'
     /\ cpc = "stopped"
          => /\ pos' = pos
             /\ yielded' = yielded
             /\ events' = events
             /\ gpc' = gpc
             /\ reader' = reader
             /\ releases' = releases]_vars

C23_Witness ==
  /\ cpc = "stopped"
  /\ gpc = "returned"
  /\ reader = "released"
  /\ Len(yielded) = 1
  /\ lines # << >>
  /\ buffer # << >>
  /\ pos < Len(response.bytes)

\* C24: call isolation: however the steps of two calls interleave, the
\* state each call works on (decoder, buffer, frame fields, events,
\* result) is at every moment what the same call, taking the same steps
\* with nothing beside it, has: its events and its result are those of the
\* call run alone.
C24_CallIsolation ==
  \A i \in Calls : View(i) = alone[i]

C24_Witness ==
  /\ calls[1].pc = "resume"
  /\ calls[1].events # << >>
  /\ calls[2].pc = "read"
  /\ calls[2].pos > 0
  /\ calls[2].buffer # << >>
  /\ calls[2].pending # << >>

\* C25: a character cut off at the end of the input is resolved at the end
\* of the stream: when the generator is done, the decoder holds no pending
\* bytes; they were flushed and handed to the end-of-stream flush.
C25_DecoderFlushedAtEnd ==
  (gpc = "done" /\ response.bytes \in CutBodies) => pending = << >>

\* C26: a read that fails in the middle of the stream aborts the whole
\* call: once a read has raised after events were yielded, the reader is
\* released, collectStreamEvents does not return (no result, no event
\* list), and the handler's response, once given, is an error response
\* carrying that error and nothing of what had been collected.
C26_ReadFailureAborts ==
  (gpc = "threw" /\ error.name = "read failed" /\ yielded # << >>) =>
    /\ reader = "released"
    /\ releases = 1
    /\ cpc # "returned"
    /\ tool # ToolPending =>
         /\ cpc = "threw"
         /\ tool.isError
         /\ tool.result = Null
         /\ tool.events = << >>
         /\ tool.error = error

\* A read failed after a qualifying terminal event had been received, and
\* the handler has answered with the error.
C26_Witness ==
  /\ gpc = "threw"
  /\ error.name = "read failed"
  /\ Truthy(finalResult)
  /\ events # << >>
  /\ \E i \in 1..Len(events) : Qualifies(events[i])
  /\ tool.kind = "error"
  /\ reader = "released"

\* The call is over: the generator yields no more, the reader is not
\* locked, and the handler has answered (or the consumer has left).
Finished ==
  /\ gpc \in {"done", "threw", "returned"}
  /\ reader # "locked"
  /\ \/ tool.kind \in {"result", "fallback", "error"}
     \/ cpc = "stopped"

\* C28: termination: when every read resolves and the body ends or fails,
\* the call finishes: the generator stops yielding, the reader is released
\* and the handler answers with a structured result, the fallback made of
\* the raw events, or an error, whether or not a terminal event was sent.
C28_Termination == <>Finished

\* The stream ended without a terminal event after yielding events, and
\* the call finished with the fallback.
C28_Witness ==
  /\ Finished
  /\ gpc = "done"
  /\ reader = "released"
  /\ events # << >>
  /\ \A i \in 1..Len(events) : ~Qualifies(events[i])
  /\ tool.kind = "fallback"

====
